---------------------------- MODULE Spec2Model ----------------------------
(***************************************************************************)
(* Model of shen's MCP layer: MCPClient (src/src/shen/mcp/client.py) and   *)
(* MCPManager (src/src/shen/mcp/manager.py).                               *)
(*                                                                         *)
(* SpecClient : one MCPClient used by concurrent coroutines, with its peer *)
(* SpecLifecycle : the same client, new or with its handshake answered     *)
(* SpecCancel : the same client, whose callers may also be cancelled       *)
(* SpecHandshake : the same client, started where a future already holds   *)
(*              a response, to run the statements that follow a response   *)
(* Spec       : one MCPManager used by concurrent coroutines, with the     *)
(*              clients it constructs and their peers                      *)
(* SpecWide   : one MCPManager with two services, their recorded clients   *)
(*              and the calls that go through them: disconnect_service,    *)
(*              call_tool, list_all_tools                                  *)
(* SpecStatus : the manager of SpecWide read by get_status                  *)
(* SpecRegistry : MCPManager objects over one config directory, used from  *)
(*              synchronous code: load, add, remove                        *)
(***************************************************************************)
EXTENDS Naturals, Sequences, FiniteSets, TLC

VARIABLES
    \* ---- MCPClient (client.py:155-160) and its transport ----
    transport,          \* [kind, open, closed]: self.client / self.websocket
    server_info,        \* self.server_info
    request_id,         \* self._request_id
    pending_requests,   \* self._pending_requests: set of [id, fut]
    future,             \* future[p]: state of the asyncio.Future of caller p
    \* ---- coroutines calling the client ----
    cpc,                \* cpc[p]: where caller p is suspended
    creq,               \* creq[p]: the call p is in: [op, method, id]
    cout,               \* cout[p]: how p's call ended
    interrupted,        \* callers that were waiting when a disconnect() finished
    issued,             \* ids in allocation order (history)
    \* ---- the peer of the client ----
    wire,               \* request ids the peer has received and not answered
    inbox,              \* responses delivered to the client's transport
    \* ---- MCPManager (manager.py:24-27) ----
    services,           \* self.services: name -> MCPServiceConfig
    files,              \* the files add/remove/load work on: path -> content
    clients,            \* self.clients: name -> MCPClient
    lock,               \* self._lock: [holder, waiters]
    \* ---- coroutines calling the manager ----
    tpc,                \* tpc[t]: where task t is suspended
    frame,              \* frame[t]: the locals of the call task t is in
    \* ---- the config directory and the synchronous calls ----
    config_dir,         \* self.config_dir.exists()
    result,             \* the last synchronous call of the manager and its outcome
    added               \* name -> config last stored by add_service, not removed

cvars == <<transport, server_info, request_id, pending_requests, future,
           cpc, creq, cout, interrupted, issued, wire, inbox>>

mvars == <<services, files, clients, lock, tpc, frame>>

rvars == <<config_dir, result, added>>

vars == <<cvars, mvars, rvars>>

---------------------------------------------------------------------------
\* Bounds of the model.

\* ids a client allocates in one run before the model stops issuing more
MaxRequests == 3

\* requests a client of the initial state may already have completed
PriorRequests == 8

Callers == {"c1", "c2"}

ClientTransports == {"http", "websocket"}

Methods == {"tools/list", "tools/call"}

Replies == {"result", "error"}

---------------------------------------------------------------------------
\* str(int): the decimal digits of n, most significant first
RECURSIVE Str(_)
Str(n) ==
    IF n < 10 THEN <<n>>
    ELSE Append(Str(n \div 10), n % 10)

\* the number a decimal string denotes (used to compare ids numerically)
RECURSIVE Num(_)
Num(s) ==
    IF Len(s) = 0 THEN 0
    ELSE 10 * Num(SubSeq(s, 1, Len(s) - 1)) + s[Len(s)]

NoId == <<>>

NoInfo == "None"

\* asyncio.Future() as created by send_request: no result set
Unset == [state |-> "unset", id |-> NoId, reply |-> "none"]

NoCall == [op |-> "none", method |-> "none", id |-> NoId]

NoOutcome == [kind |-> "none", method |-> "none", id |-> NoId, answered |-> FALSE]

\* HTTPTransport.is_connected / WebSocketTransport.is_connected
TransportIsConnected(t) ==
    IF t.kind = "http" THEN t.open
    ELSE t.open /\ ~t.closed

\* MCPClient._next_request_id: self._request_id += 1
NextRequestIdStale(n) == n
NextRequestId(n) == n + 1

\* self._pending_requests[request_id] = future
Register(pend, id, p) ==
    {e \in pend : e.id # id} \cup {[id |-> id, fut |-> p]}

\* self._pending_requests.pop(request_id, None)
PopPendingKeep(pend, id) == pend
PopPending(pend, id) == {e \in pend : e.id # id}

\* the error send_request raises on asyncio.TimeoutError
TimeoutError(method) ==
    [kind |-> "timeout", method |-> method, id |-> NoId, answered |-> FALSE]

\* the error send_request raises on any other exception
RequestFailedAsTimeout(method) ==
    [kind |-> "timeout", method |-> method, id |-> NoId, answered |-> FALSE]
RequestFailed(method) ==
    [kind |-> "failed", method |-> method, id |-> NoId, answered |-> FALSE]

\* MCPServerInfo parsed from result.serverInfo (client.py:215)
ServerInfo == "serverInfo"

\* ---- data of MCPManager ----

\* service names (keys of self.services and self.clients)
Names == {"x", "y", "../z", "example-filesystem"}

\* the service names the coroutines of Spec work on
ScopeNames == {"x"}

\* coroutines that call the manager
Tasks == {"t1", "t2"}

\* tasks made by asyncio.create_task in remove_service (manager.py:102)
Background == {"bg"}

AllTasks == Tasks \cup Background

\* TransportType (models.py:9-14)
Transports == {"stdio", "http", "websocket"}

\* MCPServiceConfig.retry_count's default
DefaultRetryCount == 3

\* MCPServiceConfig: the fields the manager and the client read or carry
Config == [transport : Transports, enabled : BOOLEAN,
           retry_count : {DefaultRetryCount}]

\* services.get(name) is None
NoConfig == [transport |-> "none", enabled |-> FALSE, retry_count |-> 0]

\* clients.get(name) is None
NoClient == [kind |-> "none", open |-> FALSE, closed |-> FALSE,
             server_info |-> NoInfo, request_id |-> 0, pending |-> {},
             inbox |-> {}]

\* MCPClient(config) (client.py:155-160)
NewClient(cfg) == [NoClient EXCEPT !.kind = cfg.transport]

\* a client as connect_service records it (manager.py:158): transport open,
\* handshake done with id "1", nothing pending
ReadyClient(kind) ==
    [kind |-> kind, open |-> TRUE, closed |-> FALSE, server_info |-> ServerInfo,
     request_id |-> 1, pending |-> {}, inbox |-> {}]

\* MCPClient.is_connected (client.py:302-305)
ClientIsConnected(c) == TransportIsConnected([kind |-> c.kind, open |-> c.open,
                                              closed |-> c.closed])

BoolStr(b) == IF b THEN "True" ELSE "False"

\* all_tools = {} (manager.py:200)
NoTools == [n \in Names |-> "none"]

NoFrame == [op |-> "none", name |-> "none", cfg |-> NoConfig, client |-> NoClient,
            fut |-> Unset, attempts |-> 0, err |-> "none", rest |-> <<>>,
            ret |-> "None", req |-> NoCall, reply |-> "none", out |-> NoOutcome,
            res |-> NoOutcome, size |-> 0, tools |-> NoTools]

\* ---- the config directory (manager.py:24, 29-116) ----

\* the service names the coroutines of SpecWide work on
WideNames == {"x", "y"}

\* the coroutines of SpecWide that call call_tool and list_all_tools; all of
\* Tasks call disconnect_service
ToolTasks == {"t1"}

\* the names given to add_service and remove_service from synchronous code
InputNames == {"x", "../z"}

\* the configs given to add_service from synchronous code
InputConfigs ==
    {[transport |-> "http", enabled |-> TRUE, retry_count |-> DefaultRetryCount],
     [transport |-> "stdio", enabled |-> FALSE, retry_count |-> DefaultRetryCount]}

\* the name of the example record (manager.py:55)
ExampleName == "example-filesystem"

\* the example record (manager.py:54-61)
ExampleConfigEnabled ==
    [transport |-> "stdio", enabled |-> TRUE, retry_count |-> DefaultRetryCount]
ExampleConfig ==
    [transport |-> "stdio", enabled |-> FALSE, retry_count |-> DefaultRetryCount]

\* the components of f"{name}.json" as a relative path
NameParts(n) == IF n = "../z" THEN <<"..", "z">> ELSE <<n>>

\* self.config_dir / f"{name}.json" (manager.py:63, 81, 111): the directory
\* the path leads into and the stem of the file there
ConfigFile(n) ==
    LET parts == NameParts(n)
    IN  IF Len(parts) = 1
        THEN [dir |-> "config_dir", stem |-> parts[1]]
        ELSE [dir |-> "parent", stem |-> parts[Len(parts)]]

Paths == {ConfigFile(n) : n \in Names}

\* no file at the path
Absent == [kind |-> "absent", name |-> "none", transport |-> "none",
           enabled |-> "none", retry_count |-> 0]

\* a file json.load cannot read
NotJson == [Absent EXCEPT !.kind = "garbage"]

\* json.dump(config.model_dump(), f) (manager.py:65, 83): the enum member is
\* written as its value, the bool as a JSON literal
Dump(n, cfg) ==
    [kind |-> "json", name |-> n, transport |-> cfg.transport,
     enabled |-> IF cfg.enabled THEN "true" ELSE "false",
     retry_count |-> cfg.retry_count]

\* a JSON object whose transport is no TransportType value
BadRecord(n) == [Dump(n, ExampleConfig) EXCEPT !.transport = "pipe"]

\* MCPServiceConfig.model_validate(json.load(f)) (manager.py:43-46)
Validate(j) ==
    IF /\ j.kind = "json"
       /\ j.transport \in Transports
       /\ j.enabled \in {"true", "false"}
    THEN [ok |-> TRUE, name |-> j.name,
          cfg |-> [transport |-> j.transport, enabled |-> (j.enabled = "true"),
                   retry_count |-> j.retry_count]]
    ELSE [ok |-> FALSE, name |-> "none", cfg |-> NoConfig]

\* self.config_dir.glob("*.json") (manager.py:36)
Glob(fs) == {p \in Paths : p.dir = "config_dir" /\ fs[p].kind # "absent"}

\* the loop of load_services over the files in the order given
\* (manager.py:41-50)
RECURSIVE LoadRecordsAbort(_, _, _)
LoadRecordsAbort(order, fs, svc) ==
    IF order = <<>> THEN svc
    ELSE LET v == Validate(fs[Head(order)])
         IN  IF v.ok
             THEN LoadRecordsAbort(Tail(order), fs, [svc EXCEPT ![v.name] = v.cfg])
             ELSE svc
RECURSIVE LoadRecords(_, _, _)
LoadRecords(order, fs, svc) ==
    IF order = <<>> THEN svc
    ELSE LET v == Validate(fs[Head(order)])
         IN  LoadRecords(Tail(order), fs,
                         IF v.ok THEN [svc EXCEPT ![v.name] = v.cfg] ELSE svc)

\* config_file.unlink() (manager.py:113)
UnlinkKeep(fs, p) == fs
Unlink(fs, p) == [fs EXCEPT ![p] = Absent]

\* the files a service map leaves in the directory when each of its configs
\* was stored by add_service
FilesOf(svc) ==
    [p \in Paths |->
        IF \E n \in Names : ConfigFile(n) = p /\ svc[n] # NoConfig
        THEN LET n == CHOOSE n \in Names : ConfigFile(n) = p
             IN  Dump(n, svc[n])
        ELSE Absent]

NoServices == [n \in Names |-> NoConfig]

NoClients == [n \in Names |-> NoClient]

\* no synchronous call made yet
NoResult == [op |-> "none", name |-> "none", cfg |-> NoConfig, ret |-> "None",
             raised |-> FALSE, client |-> NoClient, exists |-> FALSE,
             fresh |-> FALSE, seeded |-> FALSE, status |-> {}]

PendingIds == {e.id : e \in pending_requests}

InboxIds == {r.id : r \in inbox}

---------------------------------------------------------------------------
\* MCPClient: one client object, its callers and its peer.

InitClient ==
    /\ transport \in [kind : ClientTransports, open : {FALSE}, closed : {FALSE}]
    /\ server_info = NoInfo
    /\ request_id \in {0, PriorRequests}
    /\ pending_requests = {}
    /\ future = [p \in Callers |-> Unset]
    /\ cpc = [p \in Callers |-> "idle"]
    /\ creq = [p \in Callers |-> NoCall]
    /\ cout = [p \in Callers |-> NoOutcome]
    /\ interrupted = {}
    /\ issued = <<>>
    /\ wire = {}
    /\ inbox = {}
    /\ services = NoServices
    /\ files = FilesOf(services)
    /\ clients = NoClients
    /\ lock = [holder |-> "None", waiters |-> <<>>]
    /\ tpc = [t \in AllTasks |-> "idle"]
    /\ frame = [t \in AllTasks |-> NoFrame]
    /\ config_dir = TRUE
    /\ result = NoResult
    /\ added = services

\* send_request up to its first suspension (client.py:229-242): allocate the
\* id, register the future, start the send.  tr is the transport as it is
\* when the send starts; send_message raises at once when it is not open.
BeginSendRequest(p, op, m, tr) ==
    LET n == NextRequestId(request_id)
        id == Str(n)
        reg == Register(pending_requests, id, p)
    IN  /\ request_id' = n
        /\ issued' = Append(issued, id)
        /\ future' = [future EXCEPT ![p] = Unset]
        /\ creq' = [creq EXCEPT ![p] = [op |-> op, method |-> m, id |-> id]]
        /\ IF tr.open
           THEN /\ pending_requests' = reg
                /\ cpc' = [cpc EXCEPT ![p] = "sending"]
                /\ cout' = cout
           ELSE /\ pending_requests' = PopPending(reg, id)
                /\ cpc' = [cpc EXCEPT ![p] = "done"]
                /\ cout' = [cout EXCEPT ![p] = RequestFailed(m)]

\* a caller enters send_request(method)
SendRequestCall(p, m) ==
    /\ cpc[p] = "idle"
    /\ Len(issued) < MaxRequests
    /\ BeginSendRequest(p, "request", m, transport)
    /\ UNCHANGED <<transport, server_info, interrupted, wire, inbox>>
    /\ UNCHANGED <<mvars, rvars>>

\* await self.transport.send_message(request) completes (client.py:242):
\* HTTP posts and drops the reply (client.py:90-91), WebSocket writes a frame
SendDone(p) ==
    /\ cpc[p] = "sending"
    /\ \E ok \in BOOLEAN, reply \in Replies :
        /\ ok => TransportIsConnected(transport)
        /\ IF ok
           THEN /\ cpc' = [cpc EXCEPT ![p] = "waiting"]
                /\ IF transport.kind = "http"
                   THEN /\ inbox' = inbox \cup {[id |-> creq[p].id, reply |-> reply]}
                        /\ wire' = wire
                   ELSE /\ wire' = wire \cup {creq[p].id}
                        /\ inbox' = inbox
                /\ UNCHANGED <<pending_requests, cout>>
           ELSE /\ pending_requests' = PopPending(pending_requests, creq[p].id)
                /\ cpc' = [cpc EXCEPT ![p] = "done"]
                /\ cout' = [cout EXCEPT ![p] = RequestFailed(creq[p].method)]
                /\ UNCHANGED <<wire, inbox>>
    /\ UNCHANGED <<transport, server_info, request_id, future, creq,
                   interrupted, issued>>
    /\ UNCHANGED <<mvars, rvars>>

\* the peer answers a request it has received, in any order
PeerRespond(id, reply) ==
    /\ id \in wire
    /\ transport.kind = "websocket"
    /\ TransportIsConnected(transport)
    /\ wire' = wire \ {id}
    /\ inbox' = inbox \cup {[id |-> id, reply |-> reply]}
    /\ UNCHANGED <<transport, server_info, request_id, pending_requests, future,
                   cpc, creq, cout, interrupted, issued>>
    /\ UNCHANGED <<mvars, rvars>>

\* the peer closes the WebSocket
PeerClose ==
    /\ transport.kind = "websocket"
    /\ transport.open /\ ~transport.closed
    /\ transport' = [transport EXCEPT !.closed = TRUE]
    /\ UNCHANGED <<server_info, request_id, pending_requests, future,
                   cpc, creq, cout, interrupted, issued, wire, inbox>>
    /\ UNCHANGED <<mvars, rvars>>

\* what the caller of send_request gets when the wait ends (client.py:245-249):
\* the future's result when it has one, else the timeout error
WaitResult(fut, call, arrived) ==
    IF fut.state = "done"
    THEN [kind |-> "response", method |-> call.method, id |-> fut.id,
          answered |-> arrived]
    ELSE [TimeoutError(call.method) EXCEPT !.answered = arrived]

\* what MCPClient.call_tool makes of the outcome of its send_request
\* (client.py:271-282): the response's result, a "Tool call failed" error for a
\* response with an error, and send_request's own error as it is
CallToolResult(out, reply) ==
    IF out.kind = "response"
    THEN IF reply = "error" THEN [out EXCEPT !.kind = "tool_error"]
         ELSE [out EXCEPT !.kind = "result"]
    ELSE out

\* what MCPClient.list_tools makes of the outcome of its send_request
\* (client.py:261-267)
ListToolsResult(out, reply) ==
    IF out.kind = "response"
    THEN IF reply = "error" THEN [out EXCEPT !.kind = "tool_error"]
         ELSE [out EXCEPT !.kind = "tools"]
    ELSE out

\* self.server_info after _initialize has looked at the response
\* (client.py:210-215)
InfoFromResponseAny(reply, info) == ServerInfo
InfoFromResponse(reply, info) == IF reply = "result" THEN ServerInfo ELSE info

\* await asyncio.wait_for(future, timeout) ends (client.py:245-249).  Nothing
\* in client.py sets a future's result, so the wait ends by the timeout.
\* For connect(), _initialize goes on from the response (client.py:210-218).
WaitDone(p) ==
    /\ cpc[p] = "waiting"
    /\ LET res == WaitResult(future[p], creq[p], creq[p].id \in InboxIds)
       IN  /\ cpc' = [cpc EXCEPT ![p] = "done"]
           /\ IF res.kind = "response"
              THEN /\ UNCHANGED <<pending_requests, future>>
                   /\ IF creq[p].op = "connect"
                      THEN IF future[p].reply = "error"
                           THEN /\ cout' = [cout EXCEPT ![p] = RequestFailed("initialize")]
                                /\ server_info' = InfoFromResponse("error", server_info)
                           ELSE /\ server_info' =
                                      InfoFromResponse(future[p].reply, server_info)
                                /\ \E ok \in BOOLEAN :
                                     /\ ok => TransportIsConnected(transport)
                                     /\ cout' = [cout EXCEPT ![p] =
                                           IF ok THEN [res EXCEPT !.kind = "ok"]
                                           ELSE RequestFailed("notifications/initialized")]
                      ELSE /\ cout' = [cout EXCEPT ![p] = res]
                           /\ server_info' = server_info
              ELSE /\ pending_requests' = PopPending(pending_requests, creq[p].id)
                   /\ future' = [future EXCEPT ![p].state = "cancelled"]
                   /\ cout' = [cout EXCEPT ![p] = res]
                   /\ server_info' = server_info
    /\ UNCHANGED <<transport, request_id, creq, interrupted, issued, wire, inbox>>
    /\ UNCHANGED <<mvars, rvars>>

\* the caller takes the result of its call and is free to call again.  No
\* statement reads the transport, so what the peer holds or has delivered for
\* the ended call is not followed any further.
Return(p) ==
    /\ cpc[p] \in {"done", "cancelled"}
    /\ cpc' = [cpc EXCEPT ![p] = "idle"]
    /\ creq' = [creq EXCEPT ![p] = NoCall]
    /\ cout' = [cout EXCEPT ![p] = NoOutcome]
    /\ interrupted' = interrupted \ {p}
    /\ wire' = wire \ {creq[p].id}
    /\ inbox' = {r \in inbox : r.id # creq[p].id}
    /\ UNCHANGED <<transport, server_info, request_id, pending_requests, future,
                   issued>>
    /\ UNCHANGED <<mvars, rvars>>

\* MCPClient.connect (client.py:171-182).  HTTPTransport.connect builds the
\* httpx client without suspending (client.py:68-77), so connect() runs on into
\* _initialize's send_request; WebSocketTransport.connect suspends
\* (client.py:113).
ConnectCall(p) ==
    /\ cpc[p] = "idle"
    /\ Len(issued) < MaxRequests
    /\ IF transport.kind = "http"
       THEN /\ transport' = [transport EXCEPT !.open = TRUE]
            /\ BeginSendRequest(p, "connect", "initialize", transport')
       ELSE /\ cpc' = [cpc EXCEPT ![p] = "connecting"]
            /\ creq' = [creq EXCEPT ![p] =
                         [op |-> "connect", method |-> "initialize", id |-> NoId]]
            /\ UNCHANGED <<transport, request_id, pending_requests, future, cout,
                           issued>>
    /\ UNCHANGED <<server_info, interrupted, wire, inbox>>
    /\ UNCHANGED <<mvars, rvars>>

\* websockets.connect returns or raises (client.py:112-118)
ConnectDone(p) ==
    /\ cpc[p] = "connecting"
    /\ \E ok \in BOOLEAN :
        IF ok
        THEN /\ Len(issued) < MaxRequests
             /\ transport' = [transport EXCEPT !.open = TRUE, !.closed = FALSE]
             /\ BeginSendRequest(p, "connect", "initialize", transport')
        ELSE /\ cpc' = [cpc EXCEPT ![p] = "done"]
             /\ cout' = [cout EXCEPT ![p] = RequestFailed("connect")]
             /\ UNCHANGED <<transport, request_id, pending_requests, future, creq,
                            issued>>
    /\ UNCHANGED <<server_info, interrupted, wire, inbox>>
    /\ UNCHANGED <<mvars, rvars>>

\* self.server_info = None (client.py:187)
ServerInfoKept(info) == info
ServerInfoCleared(info) == NoInfo

\* the rest of MCPClient.disconnect once the transport is closed
\* (client.py:187-188): server_info = None, _pending_requests.clear().
\* The futures themselves are not touched.
FinishDisconnect(p) ==
    /\ server_info' = ServerInfoCleared(server_info)
    /\ pending_requests' = {}
    /\ interrupted' = interrupted \cup {q \in Callers : cpc[q] = "waiting"}
    /\ cpc' = [cpc EXCEPT ![p] = "done"]
    /\ cout' = [cout EXCEPT ![p] = [NoOutcome EXCEPT !.kind = "ok"]]

\* MCPClient.disconnect (client.py:184-189): transport.disconnect suspends in
\* aclose()/close() only when the transport is open (client.py:81, 122)
DisconnectCall(p) ==
    /\ cpc[p] = "idle"
    /\ creq' = [creq EXCEPT ![p] = [NoCall EXCEPT !.op = "disconnect"]]
    /\ IF transport.open
       THEN /\ cpc' = [cpc EXCEPT ![p] = "closing"]
            /\ UNCHANGED <<server_info, pending_requests, interrupted, cout>>
       ELSE FinishDisconnect(p)
    /\ UNCHANGED <<transport, request_id, future, issued, wire, inbox>>
    /\ UNCHANGED <<mvars, rvars>>

\* aclose()/close() returns: self.client = None / self.websocket = None
DisconnectDone(p) ==
    /\ cpc[p] = "closing"
    /\ transport' = [transport EXCEPT !.open = FALSE, !.closed = FALSE]
    /\ FinishDisconnect(p)
    /\ UNCHANGED <<request_id, future, creq, issued, wire, inbox>>
    /\ UNCHANGED <<mvars, rvars>>

\* MCPClient.send_notification (client.py:254-257): a request with no id
SendNotification(p, m) ==
    /\ cpc[p] = "idle"
    /\ creq' = [creq EXCEPT ![p] = [op |-> "notify", method |-> m, id |-> NoId]]
    /\ cpc' = [cpc EXCEPT ![p] = "done"]
    /\ \E ok \in BOOLEAN :
        /\ ok => TransportIsConnected(transport)
        /\ cout' = [cout EXCEPT ![p] =
                IF ok THEN [NoOutcome EXCEPT !.kind = "ok"] ELSE RequestFailed(m)]
    /\ UNCHANGED <<transport, server_info, request_id, pending_requests, future,
                   interrupted, issued, wire, inbox>>
    /\ UNCHANGED <<mvars, rvars>>

\* the task running send_request or connect() is cancelled while it is
\* suspended: CancelledError is raised at the await; it is no Exception, so
\* neither except clause of send_request runs (client.py:247-252) nor that of
\* connect (client.py:180); wait_for cancels the future it waits on
Cancel(p) ==
    /\ cpc[p] \in {"sending", "waiting"}
    /\ cpc' = [cpc EXCEPT ![p] = "cancelled"]
    /\ cout' = [cout EXCEPT ![p] = [NoOutcome EXCEPT !.kind = "cancelled",
                                                    !.method = creq[p].method]]
    /\ future' = IF cpc[p] = "waiting" /\ future[p].state = "unset"
                 THEN [future EXCEPT ![p].state = "cancelled"]
                 ELSE future
    /\ UNCHANGED <<transport, server_info, request_id, pending_requests, creq,
                   interrupted, issued, wire, inbox>>
    /\ UNCHANGED <<mvars, rvars>>

NextClient ==
    \/ \E p \in Callers, m \in Methods : SendRequestCall(p, m)
    \/ \E p \in Callers : SendDone(p)
    \/ \E p \in Callers : WaitDone(p)
    \/ \E p \in Callers : Return(p)
    \/ \E p \in Callers : ConnectCall(p)
    \/ \E p \in Callers : ConnectDone(p)
    \/ \E p \in Callers : DisconnectCall(p)
    \/ \E p \in Callers : DisconnectDone(p)
    \/ \E p \in Callers, m \in Methods : SendNotification(p, m)
    \/ \E id \in wire, reply \in Replies : PeerRespond(id, reply)
    \/ PeerClose

SpecClient == InitClient /\ [][NextClient]_vars

\* a new client whose callers may also be cancelled
InitCancel == InitClient /\ request_id = 0

NextCancel ==
    \/ NextClient
    \/ \E p \in Callers : Cancel(p)

SpecCancel == InitCancel /\ [][NextCancel]_vars

\* a future holding the response with id n
Resolved(n, reply) == [state |-> "done", id |-> Str(n), reply |-> reply]

\* A client whose first caller waits in send_request, for the initialize
\* request of connect() or for a tool request, on a future that holds the
\* peer's response.  No statement of client.py sets a future's result, so no
\* behaviour of SpecClient gets here; these states are taken as initial so that
\* the statements that follow a response (client.py:210-218, 246) are
\* exercised.
InitHandshake ==
    /\ transport \in [kind : ClientTransports, open : {TRUE}, closed : {FALSE}]
    /\ server_info = NoInfo
    /\ request_id = 1
    /\ pending_requests = {[id |-> Str(1), fut |-> "c1"]}
    /\ \E reply \in Replies :
          /\ future = [p \in Callers |-> IF p = "c1" THEN Resolved(1, reply) ELSE Unset]
          /\ inbox = {[id |-> Str(1), reply |-> reply]}
    /\ cpc = [p \in Callers |-> IF p = "c1" THEN "waiting" ELSE "idle"]
    /\ \E call \in {[op |-> "connect", method |-> "initialize", id |-> Str(1)],
                     [op |-> "request", method |-> "tools/call", id |-> Str(1)]} :
          creq = [p \in Callers |-> IF p = "c1" THEN call ELSE NoCall]
    /\ cout = [p \in Callers |-> NoOutcome]
    /\ interrupted = {}
    /\ issued = <<Str(1)>>
    /\ wire = {}
    /\ services = NoServices
    /\ files = FilesOf(services)
    /\ clients = NoClients
    /\ lock = [holder |-> "None", waiters |-> <<>>]
    /\ tpc = [t \in AllTasks |-> "idle"]
    /\ frame = [t \in AllTasks |-> NoFrame]
    /\ config_dir = TRUE
    /\ result = NoResult
    /\ added = services

SpecHandshake == InitHandshake /\ [][NextClient]_vars

\* a client in any of the states above: new, or with its handshake answered
InitLifecycle == InitCancel \/ InitHandshake

SpecLifecycle == InitLifecycle /\ [][NextClient]_vars

---------------------------------------------------------------------------
\* MCPManager: the registry, the coroutines calling it, and the peers of the
\* services.

\* asyncio.Lock.acquire: taken at once when free and nobody waits, else the
\* caller queues
AcquireUnguarded(l, t) == [l EXCEPT !.holder = t]
Acquire(l, t) ==
    IF l.holder = "None" /\ l.waiters = <<>>
    THEN [l EXCEPT !.holder = t]
    ELSE [l EXCEPT !.waiters = Append(@, t)]

\* asyncio.Lock.release: the first waiter is woken and takes the lock
ReleaseHeld(l) == l
Release(l) ==
    IF l.waiters = <<>>
    THEN [l EXCEPT !.holder = "None"]
    ELSE [holder |-> Head(l.waiters), waiters |-> Tail(l.waiters)]

\* task t has come out of acquire()
Holds(l, t) ==
    /\ l.holder = t
    /\ \A i \in 1..Len(l.waiters) : l.waiters[i] # t

\* config is usable: not (not config or not config.enabled) (manager.py:151)
ServiceUsableIgnoreEnabled(cfg) == cfg # NoConfig
ServiceUsable(cfg) == cfg # NoConfig /\ cfg.enabled

\* what connect_service returns once the attempt has ended (manager.py:155-163):
\* every failure of MCPClient(config) or client.connect() is an MCPClientError
\* and is caught
ConnectServiceResultUncaught(err) ==
    IF err = "none" THEN "True" ELSE IF err = "unsupported" THEN "raise" ELSE "False"
ConnectServiceResult(err) == IF err = "none" THEN "True" ELSE "False"

\* get_status()[n] (manager.py:248-260)
GetStatusFromConfig(n) ==
    [enabled |-> services[n].enabled,
     transport |-> services[n].transport,
     connected |-> services[n].enabled,
     server_info |-> NoInfo]
GetStatus(n) ==
    [enabled |-> services[n].enabled,
     transport |-> services[n].transport,
     connected |-> IF clients[n] # NoClient THEN ClientIsConnected(clients[n])
                   ELSE FALSE,
     server_info |-> IF clients[n] # NoClient THEN clients[n].server_info
                     ELSE NoInfo]

\* The registry after __init__ and load_services (manager.py:24-50), with or
\* without clients recorded.  manager.py:158 is the only statement that
\* records a client, and it runs only when client.connect() returns normally;
\* no statement of client.py sets the result of a future, so no behaviour of
\* this model gets there from an empty client map.  The registries in which a
\* client is recorded (as manager.py:156-158 would leave it: an enabled http
\* or websocket service, transport open, handshake done) are therefore taken
\* as initial states, so that the statements of manager.py that work on
\* recorded clients (147-148, 172-175, 180-181) are exercised.
Init ==
    /\ services \in [Names -> Config \cup {NoConfig}]
    /\ \A n \in Names \ ScopeNames : services[n] = NoConfig
    /\ files = FilesOf(services)
    /\ config_dir = TRUE
    /\ result = NoResult
    /\ added = services
    /\ clients \in [Names -> {NoClient} \cup {ReadyClient(k) : k \in ClientTransports}]
    /\ \A n \in Names :
          clients[n] # NoClient =>
              /\ ServiceUsable(services[n])
              /\ services[n].transport = clients[n].kind
    /\ lock = [holder |-> "None", waiters |-> <<>>]
    /\ tpc = [t \in AllTasks |-> "idle"]
    /\ frame = [t \in AllTasks |-> NoFrame]
    /\ transport = [kind |-> "http", open |-> FALSE, closed |-> FALSE]
    /\ server_info = NoInfo
    /\ request_id = 0
    /\ pending_requests = {}
    /\ future = [p \in Callers |-> Unset]
    /\ cpc = [p \in Callers |-> "idle"]
    /\ creq = [p \in Callers |-> NoCall]
    /\ cout = [p \in Callers |-> NoOutcome]
    /\ interrupted = {}
    /\ issued = <<>>
    /\ wire = {}
    /\ inbox = {}

\* the end of a call made under "async with self._lock": the lock is released
\* and the task holds the value returned
Finish(t, f, value) ==
    /\ tpc' = [tpc EXCEPT ![t] = "done"]
    /\ frame' = [frame EXCEPT ![t] = [f EXCEPT !.ret = value]]
    /\ lock' = Release(lock)

\* client.connect() raised (client.py:180-182); connect_service returns from
\* its except clause (manager.py:161-163)
ConnectFailed(t, f, err) ==
    Finish(t, [f EXCEPT !.err = err], ConnectServiceResult(err))

\* _initialize's send_request up to its suspension in send_message
\* (client.py:194, 229-242) on the task's client, whose transport is open
BeginInitialize(t, f, c) ==
    LET n == NextRequestId(c.request_id)
        id == Str(n)
    IN  /\ tpc' = [tpc EXCEPT ![t] = "sending"]
        /\ frame' = [frame EXCEPT ![t] =
              [f EXCEPT !.fut = Unset,
                        !.client = [c EXCEPT !.request_id = n,
                                             !.pending = Register(c.pending, id, t)]]]
        /\ lock' = lock

\* a task calls connect_service(name): async with self._lock (manager.py:146)
ConnectServiceCall(t, n) ==
    /\ tpc[t] = "idle"
    /\ tpc' = [tpc EXCEPT ![t] = "lock"]
    /\ frame' = [frame EXCEPT ![t] = [NoFrame EXCEPT !.op = "connect_service",
                                                      !.name = n]]
    /\ lock' = Acquire(lock, t)
    /\ UNCHANGED <<services, files, clients>>
    /\ UNCHANGED <<cvars, rvars>>

\* connect_service from the lock to its first suspension or return
\* (manager.py:147-157, client.py:155-177)
ConnectServiceEnter(t) ==
    /\ tpc[t] = "lock"
    /\ frame[t].op = "connect_service"
    /\ Holds(lock, t)
    /\ LET n == frame[t].name
           cfg == services[n]
           f == [frame[t] EXCEPT !.cfg = cfg]
       IN  IF clients[n] # NoClient
           THEN Finish(t, frame[t], BoolStr(ClientIsConnected(clients[n])))
           ELSE IF ~ServiceUsable(cfg)
           THEN Finish(t, f, "False")
           ELSE IF cfg.transport \notin ClientTransports
           THEN ConnectFailed(t, f, "unsupported")
           ELSE IF cfg.transport = "http"
           THEN BeginInitialize(t, [f EXCEPT !.attempts = 1],
                                [NewClient(cfg) EXCEPT !.open = TRUE])
           ELSE /\ tpc' = [tpc EXCEPT ![t] = "connecting"]
                /\ frame' = [frame EXCEPT ![t] =
                      [f EXCEPT !.attempts = 1, !.client = NewClient(cfg)]]
                /\ lock' = lock
    /\ UNCHANGED <<services, files, clients>>
    /\ UNCHANGED <<cvars, rvars>>

\* websockets.connect returns or raises (client.py:112-118)
ConnectServiceConnected(t) ==
    /\ tpc[t] = "connecting"
    /\ \E ok \in BOOLEAN :
        IF ok
        THEN BeginInitialize(t, frame[t], [frame[t].client EXCEPT !.open = TRUE])
        ELSE ConnectFailed(t, frame[t], "transport")
    /\ UNCHANGED <<services, files, clients>>
    /\ UNCHANGED <<cvars, rvars>>

\* send_message of the initialize request completes (client.py:242): HTTP
\* posts and drops the peer's reply, WebSocket writes a frame
ConnectServiceSent(t) ==
    /\ tpc[t] = "sending"
    /\ LET c == frame[t].client
           id == Str(c.request_id)
       IN \E ok \in BOOLEAN, reply \in Replies :
            /\ ok => ClientIsConnected(c)
            /\ IF ok
               THEN /\ tpc' = [tpc EXCEPT ![t] = "waiting"]
                    /\ frame' = [frame EXCEPT ![t].client.inbox =
                          IF c.kind = "http" THEN {[id |-> id, reply |-> reply]}
                          ELSE {}]
                    /\ lock' = lock
               ELSE ConnectFailed(t,
                        [frame[t] EXCEPT !.client.pending = PopPending(@, id)],
                        "send")
    /\ UNCHANGED <<services, files, clients>>
    /\ UNCHANGED <<cvars, rvars>>

\* the peer of a WebSocket service answers the initialize request
PeerAnswersInitialize(t, reply) ==
    /\ tpc[t] = "waiting"
    /\ frame[t].client.kind = "websocket"
    /\ ClientIsConnected(frame[t].client)
    /\ frame[t].client.inbox = {}
    /\ frame' = [frame EXCEPT ![t].client.inbox =
                    {[id |-> Str(frame[t].client.request_id), reply |-> reply]}]
    /\ UNCHANGED <<services, files, clients, lock, tpc>>
    /\ UNCHANGED <<cvars, rvars>>

\* the wait for the initialize response ends (client.py:245-249); with a
\* response connect() goes on (client.py:210-218, 179) and connect_service
\* records the client (manager.py:158-160)
ConnectServiceWaited(t) ==
    /\ tpc[t] = "waiting"
    /\ LET c == frame[t].client
           id == Str(c.request_id)
           res == WaitResult(frame[t].fut,
                             [op |-> "connect", method |-> "initialize", id |-> id],
                             id \in {r.id : r \in c.inbox})
       IN  IF res.kind = "response"
           THEN IF frame[t].fut.reply = "error"
                THEN /\ ConnectFailed(t, frame[t], "rejected")
                     /\ clients' = clients
                ELSE \E ok \in BOOLEAN :
                       /\ ok => ClientIsConnected(c)
                       /\ IF ok
                          THEN /\ clients' = [clients EXCEPT ![frame[t].name] =
                                     [c EXCEPT !.server_info = ServerInfo]]
                               /\ Finish(t, frame[t], ConnectServiceResult("none"))
                          ELSE /\ ConnectFailed(t, frame[t], "notify")
                               /\ clients' = clients
           ELSE /\ ConnectFailed(t,
                       [frame[t] EXCEPT !.client.pending = PopPending(@, id),
                                        !.fut.state = "cancelled"],
                       "timeout")
                /\ clients' = clients
    /\ UNCHANGED <<services, files>>
    /\ UNCHANGED <<cvars, rvars>>

\* a task calls disconnect_service(name): async with self._lock
\* (manager.py:171)
DisconnectServiceCall(t, n) ==
    /\ tpc[t] = "idle"
    /\ tpc' = [tpc EXCEPT ![t] = "lock"]
    /\ frame' = [frame EXCEPT ![t] = [NoFrame EXCEPT !.op = "disconnect_service",
                                                      !.name = n]]
    /\ lock' = Acquire(lock, t)
    /\ UNCHANGED <<services, files, clients>>
    /\ UNCHANGED <<cvars, rvars>>

\* MCPClient.disconnect's effect on the client (client.py:186-188)
Disconnected(c) ==
    [c EXCEPT !.open = FALSE, !.closed = FALSE, !.server_info = NoInfo,
              !.pending = {}]

\* disconnect_service leaves its "async with" (manager.py:171-175).  Called
\* from disconnect_all's loop (manager.py:180-181) the loop goes on: the next
\* disconnect_service, or the end of disconnect_all's own "async with".
FinishDisconnectService(t, f) ==
    IF f.op = "disconnect_all"
    THEN LET rest == Tail(f.rest)
         IN  IF rest = <<>>
             THEN /\ tpc' = [tpc EXCEPT ![t] = "done"]
                  /\ frame' = [frame EXCEPT ![t] = [f EXCEPT !.rest = rest]]
                  /\ lock' = Release(Release(lock))
             ELSE /\ tpc' = [tpc EXCEPT ![t] = "inner"]
                  /\ frame' = [frame EXCEPT ![t] =
                        [f EXCEPT !.rest = rest, !.name = Head(rest)]]
                  /\ lock' = Acquire(Release(lock), t)
    ELSE Finish(t, f, "None")

\* self.clients.pop(name, None) (manager.py:172)
PopClientKeep(cl, n) == cl
PopClient(cl, n) == [cl EXCEPT ![n] = NoClient]

\* disconnect_service from the lock to its suspension in client.disconnect()
\* or its return (manager.py:172-175); transport.disconnect suspends only
\* when the transport is open (client.py:81, 122)
DisconnectServiceEnter(t) ==
    /\ \/ tpc[t] = "lock" /\ frame[t].op = "disconnect_service"
       \/ tpc[t] = "inner" /\ frame[t].op = "disconnect_all"
    /\ Holds(lock, t)
    /\ LET n == frame[t].name
           c == clients[n]
       IN  /\ clients' = PopClient(clients, n)
           /\ IF c = NoClient
              THEN FinishDisconnectService(t, frame[t])
              ELSE IF c.open
              THEN /\ tpc' = [tpc EXCEPT ![t] = "closing"]
                   /\ frame' = [frame EXCEPT ![t].client = c]
                   /\ lock' = lock
              ELSE FinishDisconnectService(t,
                       [frame[t] EXCEPT !.client = Disconnected(c)])
    /\ UNCHANGED <<services, files>>
    /\ UNCHANGED <<cvars, rvars>>

\* aclose()/close() returns and client.disconnect() completes
DisconnectServiceClosed(t) ==
    /\ tpc[t] = "closing"
    /\ FinishDisconnectService(t,
           [frame[t] EXCEPT !.client = Disconnected(frame[t].client)])
    /\ UNCHANGED <<services, files, clients>>
    /\ UNCHANGED <<cvars, rvars>>

\* a task calls disconnect_all(): async with self._lock (manager.py:179)
DisconnectAllCall(t) ==
    /\ tpc[t] = "idle"
    /\ tpc' = [tpc EXCEPT ![t] = "lock"]
    /\ frame' = [frame EXCEPT ![t] = [NoFrame EXCEPT !.op = "disconnect_all"]]
    /\ lock' = Acquire(lock, t)
    /\ UNCHANGED <<services, files, clients>>
    /\ UNCHANGED <<cvars, rvars>>

\* the orders in which a dict may hold the keys S
KeyOrders(S) ==
    {q \in [1..Cardinality(S) -> S] :
        \A i, j \in 1..Cardinality(S) : i # j => q[i] # q[j]}

\* disconnect_all holding the lock: list(self.clients.keys()), then
\* "await self.disconnect_service(name)" for the first name, whose
\* "async with self._lock" acquires the lock this task already holds
\* (manager.py:179-181, 171)
DisconnectAllEnter(t) ==
    /\ tpc[t] = "lock"
    /\ frame[t].op = "disconnect_all"
    /\ Holds(lock, t)
    /\ LET keys == {n \in Names : clients[n] # NoClient}
       IN  IF keys = {}
           THEN Finish(t, frame[t], "None")
           ELSE \E order \in KeyOrders(keys) :
                  /\ tpc' = [tpc EXCEPT ![t] = "inner"]
                  /\ frame' = [frame EXCEPT ![t].rest = order,
                                            ![t].name = Head(order)]
                  /\ lock' = Acquire(lock, t)
    /\ UNCHANGED <<services, files, clients>>
    /\ UNCHANGED <<cvars, rvars>>

\* add_service(config) with config.name = n (manager.py:69-85).  io is where
\* the file system stops the call: nowhere, in mkdir, in open, or in the write
\* (which leaves a truncated file).
AddService(n, cfg, io) ==
    /\ io = "mkdir" => ~config_dir
    /\ services' = [services EXCEPT ![n] = cfg]
    /\ config_dir' = (config_dir \/ io # "mkdir")
    /\ files' = IF io = "ok" THEN [files EXCEPT ![ConfigFile(n)] = Dump(n, cfg)]
                ELSE IF io = "write" THEN [files EXCEPT ![ConfigFile(n)] = NotJson]
                ELSE files
    /\ added' = IF io = "ok" THEN [added EXCEPT ![n] = cfg]
                ELSE IF io = "write" THEN [added EXCEPT ![n] = NoConfig]
                ELSE added
    /\ result' = [NoResult EXCEPT !.op = "add_service", !.name = n, !.cfg = cfg,
                                  !.raised = (io # "ok")]
    /\ UNCHANGED <<clients, lock, tpc, frame>>
    /\ UNCHANGED cvars

\* remove_service(n) (manager.py:87-116).  With a running loop the disconnect
\* is left to a new task b; without one the client is only dropped from the
\* map.  ok: unlink() returns normally.
RemoveService(n, loop, b, ok) ==
    /\ IF services[n] = NoConfig
       THEN /\ result' = [NoResult EXCEPT !.op = "remove_service", !.name = n,
                                          !.ret = "False"]
            /\ UNCHANGED <<services, files, clients, tpc, frame, added>>
       ELSE /\ IF loop
               THEN /\ tpc[b] = "idle"
                    /\ tpc' = [tpc EXCEPT ![b] = "spawned"]
                    /\ frame' = [frame EXCEPT ![b] =
                          [NoFrame EXCEPT !.op = "disconnect_service", !.name = n]]
                    /\ clients' = clients
               ELSE /\ clients' = [clients EXCEPT ![n] = NoClient]
                    /\ UNCHANGED <<tpc, frame>>
            /\ services' = [services EXCEPT ![n] = NoConfig]
            /\ LET exists == files[ConfigFile(n)].kind # "absent"
               IN  /\ ~ok => exists
                   /\ files' = IF exists /\ ok THEN Unlink(files, ConfigFile(n))
                               ELSE files
                   /\ result' = [NoResult EXCEPT
                           !.op = "remove_service", !.name = n,
                           !.ret = IF ok THEN "True" ELSE "None",
                           !.raised = ~ok, !.client = clients[n],
                           !.exists = exists]
            /\ added' = [added EXCEPT ![n] = NoConfig]
    /\ lock' = lock
    /\ config_dir' = config_dir
    /\ UNCHANGED cvars

\* MCPManager(config_dir) (manager.py:18-27): a new manager over the same
\* directory takes the place of the old one
NewManager ==
    /\ services' = NoServices
    /\ clients' = NoClients
    /\ lock' = [holder |-> "None", waiters |-> <<>>]
    /\ result' = [NoResult EXCEPT !.op = "__init__"]
    /\ UNCHANGED <<files, tpc, frame, config_dir, added>>
    /\ UNCHANGED cvars

\* self.services when load_services returns after _create_example_config
\* (manager.py:31-39): nothing is assigned
SeededServicesRegistered(svc) == [svc EXCEPT ![ExampleName] = ExampleConfig]
SeededServices(svc) == svc

\* list_services() (manager.py:118-124)
ListServices(svc) ==
    {[name |-> n, cfg |-> svc[n]] : n \in {m \in Names : svc[m] # NoConfig}}

\* load_services() (manager.py:29-50); order is the order glob yields the
\* files in, ok: the example file is written
LoadServices(order, ok) ==
    /\ IF ~config_dir \/ Glob(files) = {}
       THEN /\ order = <<>>
            /\ config_dir' = TRUE
            /\ files' = IF ok
                        THEN [files EXCEPT ![ConfigFile(ExampleName)] =
                                 Dump(ExampleName, ExampleConfig)]
                        ELSE files
            /\ services' = SeededServices(services)
            /\ result' = [NoResult EXCEPT !.op = "load_services", !.raised = ~ok,
                                          !.fresh = (services = NoServices),
                                          !.seeded = TRUE]
       ELSE /\ ok
            /\ services' = LoadRecords(order, files, services)
            /\ result' = [NoResult EXCEPT !.op = "load_services",
                                          !.fresh = (services = NoServices)]
            /\ UNCHANGED <<files, config_dir>>
    /\ UNCHANGED <<clients, lock, tpc, frame, added>>
    /\ UNCHANGED cvars

\* what a file of the directory may hold before a manager is made: nothing,
\* unreadable text, a record that does not validate, or a stored config
InitialContents(n) ==
    {Absent, NotJson, BadRecord(n)} \cup {Dump(n, cfg) : cfg \in InputConfigs}

\* a new manager (manager.py:24-27) over a directory in any condition
InitRegistry ==
    /\ config_dir \in BOOLEAN
    /\ \E cx \in InitialContents("x"), ce \in InitialContents(ExampleName) :
          files = [p \in Paths |->
                     IF ~config_dir THEN Absent
                     ELSE IF p = ConfigFile("x") THEN cx
                     ELSE IF p = ConfigFile(ExampleName) THEN ce
                     ELSE Absent]
    /\ services = NoServices
    /\ clients = NoClients
    /\ added = NoServices
    /\ result = NoResult
    /\ lock = [holder |-> "None", waiters |-> <<>>]
    /\ tpc = [t \in AllTasks |-> "idle"]
    /\ frame = [t \in AllTasks |-> NoFrame]
    /\ transport = [kind |-> "http", open |-> FALSE, closed |-> FALSE]
    /\ server_info = NoInfo
    /\ request_id = 0
    /\ pending_requests = {}
    /\ future = [p \in Callers |-> Unset]
    /\ cpc = [p \in Callers |-> "idle"]
    /\ creq = [p \in Callers |-> NoCall]
    /\ cout = [p \in Callers |-> NoOutcome]
    /\ interrupted = {}
    /\ issued = <<>>
    /\ wire = {}
    /\ inbox = {}

IoOutcomes == {"ok", "mkdir", "open", "write"}

NextRegistry ==
    \/ NewManager
    \/ \E order \in KeyOrders(Glob(files)), ok \in BOOLEAN : LoadServices(order, ok)
    \/ \E n \in InputNames, cfg \in InputConfigs, io \in IoOutcomes :
          AddService(n, cfg, io)
    \/ \E n \in InputNames, b \in Background, ok \in BOOLEAN :
          RemoveService(n, FALSE, b, ok)

SpecRegistry == InitRegistry /\ [][NextRegistry]_vars

\* the task made by remove_service starts disconnect_service (manager.py:171)
SpawnedStart(b) ==
    /\ tpc[b] = "spawned"
    /\ tpc' = [tpc EXCEPT ![b] = "lock"]
    /\ lock' = Acquire(lock, b)
    /\ UNCHANGED <<services, files, clients, frame>>
    /\ UNCHANGED <<cvars, rvars>>

\* the peer of a recorded WebSocket client closes the socket
PeerCloseService(n) ==
    /\ clients[n].kind = "websocket"
    /\ clients[n].open /\ ~clients[n].closed
    /\ clients' = [clients EXCEPT ![n].closed = TRUE]
    /\ UNCHANGED <<services, files, lock, tpc, frame>>
    /\ UNCHANGED <<cvars, rvars>>

\* the task takes the result of its call and is free to call again
TaskReturn(t) ==
    /\ tpc[t] = "done"
    /\ tpc' = [tpc EXCEPT ![t] = "idle"]
    /\ frame' = [frame EXCEPT ![t] = NoFrame]
    /\ UNCHANGED <<services, files, clients, lock>>
    /\ UNCHANGED <<cvars, rvars>>

\* ---- calls that go through a recorded client (manager.py:194-228) ----

\* the error of MCPManager.call_tool for a service without a connected client
\* (manager.py:226)
NotConnected == [NoOutcome EXCEPT !.kind = "not_connected"]

\* the RuntimeError of a dict that changed size while it was iterated
\* (manager.py:202)
DictChangedSize == [NoOutcome EXCEPT !.kind = "runtime_error"]

\* list_all_tools returned all_tools (manager.py:211)
AllTools == [NoOutcome EXCEPT !.kind = "all_tools"]

\* MCPManager.call_tool gives its caller what client.call_tool gave
\* (manager.py:228)
ManagerCallToolWrapped(out) == [out EXCEPT !.kind = "failed"]
ManagerCallTool(out) == out

\* the entry list_all_tools makes for a service from the outcome of its
\* client's list_tools (manager.py:204-209): every failure of list_tools is an
\* MCPClientError
ToolsEntry(out) == IF out.kind = "tools" THEN "tools" ELSE "[]"

\* the client object once recorded for name n: in the client map, or, popped by
\* disconnect_service, with the task that is closing it; after that it is
\* disconnected
ClientObject(n) ==
    IF clients[n] # NoClient THEN clients[n]
    ELSE IF \E u \in AllTasks : tpc[u] = "closing" /\ frame[u].name = n
    THEN frame[CHOOSE u \in AllTasks : tpc[u] = "closing" /\ frame[u].name = n].client
    ELSE NoClient

\* self._pending_requests.pop(request_id, None) on that object
\* (client.py:248, 251)
ClientsWithout(n, id) ==
    IF clients[n] # NoClient
    THEN [clients EXCEPT ![n].pending = PopPending(@, id)]
    ELSE clients

FramesWithout(n, id) ==
    [u \in AllTasks |->
        IF clients[n] = NoClient /\ tpc[u] = "closing" /\ frame[u].name = n
        THEN [frame[u] EXCEPT !.client.pending = PopPending(@, id)]
        ELSE frame[u]]

\* send_request on the client recorded for n, up to its suspension in
\* send_message (client.py:229-242): the client after it, and the caller's frame
StartRequest(cl, n, t) ==
    [cl EXCEPT ![n].request_id = NextRequestId(@),
               ![n].pending = Register(@, Str(NextRequestId(cl[n].request_id)), t)]

RequestFrame(f, n, m, cl) ==
    [f EXCEPT !.name = n, !.fut = Unset, !.reply = "none",
              !.req = [op |-> "request", method |-> m,
                       id |-> Str(NextRequestId(cl[n].request_id))]]

\* the items of the iteration that are passed over without a suspension:
\* "if client.is_connected" is false (manager.py:203)
RECURSIVE SkipUnconnected(_, _)
SkipUnconnected(rest, cl) ==
    IF rest = <<>> THEN rest
    ELSE IF ClientIsConnected(cl[Head(rest)]) THEN rest
    ELSE SkipUnconnected(Tail(rest), cl)

\* the for loop of list_all_tools asks its iterator for the next item
\* (manager.py:202-205) with the client map cl and the frames frs: the iterator
\* raises when the dict's size is not the one it started with; else the loop
\* runs to its next list_tools or to the return
ListAllToolsAdvance(t, f, cl, frs) ==
    LET keys == {n \in Names : cl[n] # NoClient}
        r == SkipUnconnected(f.rest, cl)
    IN  IF Cardinality(keys) # f.size
        THEN /\ tpc' = [tpc EXCEPT ![t] = "done"]
             /\ clients' = cl
             /\ frame' = [frs EXCEPT ![t] = [f EXCEPT !.res = DictChangedSize]]
        ELSE IF r = <<>>
        THEN /\ tpc' = [tpc EXCEPT ![t] = "done"]
             /\ clients' = cl
             /\ frame' = [frs EXCEPT ![t] = [f EXCEPT !.rest = r, !.res = AllTools]]
        ELSE /\ tpc' = [tpc EXCEPT ![t] = "sending"]
             /\ clients' = StartRequest(cl, Head(r), t)
             /\ frame' = [frs EXCEPT ![t] =
                   RequestFrame([f EXCEPT !.rest = r], Head(r), "tools/list", cl)]

\* a task calls list_all_tools() (manager.py:194-205); order is the order of
\* self.clients
ListAllToolsCall(t, order) ==
    /\ tpc[t] = "idle"
    /\ \A n \in Names : clients[n].request_id < MaxRequests
    /\ ListAllToolsAdvance(t,
          [NoFrame EXCEPT !.op = "list_all_tools", !.rest = order,
                          !.size = Len(order)],
          clients, frame)
    /\ UNCHANGED <<services, files, lock>>
    /\ UNCHANGED <<cvars, rvars>>

\* a task calls call_tool(n, tool, arguments) of the manager (manager.py:213-228,
\* client.py:269-277)
CallToolCall(t, n) ==
    /\ tpc[t] = "idle"
    /\ clients[n].request_id < MaxRequests
    /\ IF clients[n] = NoClient \/ ~ClientIsConnected(clients[n])
       THEN /\ tpc' = [tpc EXCEPT ![t] = "done"]
            /\ frame' = [frame EXCEPT ![t] =
                  [NoFrame EXCEPT !.op = "call_tool", !.name = n,
                                  !.res = NotConnected]]
            /\ clients' = clients
       ELSE /\ tpc' = [tpc EXCEPT ![t] = "sending"]
            /\ clients' = StartRequest(clients, n, t)
            /\ frame' = [frame EXCEPT ![t] =
                  RequestFrame([NoFrame EXCEPT !.op = "call_tool"], n,
                               "tools/call", clients)]
    /\ UNCHANGED <<services, files, lock>>
    /\ UNCHANGED <<cvars, rvars>>

\* send_request of a tool call has ended with out (client.py:246-252): the
\* wrapper and the manager go on from it (client.py:263-267, 279-282;
\* manager.py:206-209, 228)
EndToolRequest(t, out) ==
    LET f == frame[t]
        n == f.name
        cl == IF out.kind = "response" THEN clients ELSE ClientsWithout(n, f.req.id)
        frs == IF out.kind = "response" THEN frame ELSE FramesWithout(n, f.req.id)
    IN  IF f.op = "call_tool"
        THEN LET o == CallToolResult(out, f.fut.reply)
             IN  /\ tpc' = [tpc EXCEPT ![t] = "done"]
                 /\ clients' = cl
                 /\ frame' = [frs EXCEPT ![t] =
                       [f EXCEPT !.out = o, !.res = ManagerCallTool(o)]]
        ELSE LET o == ListToolsResult(out, f.fut.reply)
             IN  ListAllToolsAdvance(t,
                    [f EXCEPT !.out = o, !.tools[n] = ToolsEntry(o),
                              !.rest = Tail(f.rest)],
                    cl, frs)

\* send_message of a tool request completes (client.py:242): HTTP posts and
\* drops the peer's reply, WebSocket writes a frame
ToolSent(t) ==
    /\ tpc[t] = "sending"
    /\ frame[t].op \in {"call_tool", "list_all_tools"}
    /\ LET c == ClientObject(frame[t].name)
       IN \E ok \in BOOLEAN, reply \in Replies :
            /\ ok => ClientIsConnected(c)
            /\ IF ok
               THEN /\ tpc' = [tpc EXCEPT ![t] = "waiting"]
                    /\ frame' = [frame EXCEPT ![t].reply =
                          IF c.kind = "http" THEN reply ELSE "none"]
                    /\ clients' = clients
               ELSE EndToolRequest(t, RequestFailed(frame[t].req.method))
    /\ UNCHANGED <<services, files, lock>>
    /\ UNCHANGED <<cvars, rvars>>

\* the peer of a WebSocket service answers a tool request
PeerAnswersTool(t, reply) ==
    /\ tpc[t] = "waiting"
    /\ frame[t].op \in {"call_tool", "list_all_tools"}
    /\ ClientObject(frame[t].name).kind = "websocket"
    /\ ClientIsConnected(ClientObject(frame[t].name))
    /\ frame[t].reply = "none"
    /\ frame' = [frame EXCEPT ![t].reply = reply]
    /\ UNCHANGED <<services, files, clients, lock, tpc>>
    /\ UNCHANGED <<cvars, rvars>>

\* the wait for the response of a tool request ends (client.py:245-249)
ToolWaited(t) ==
    /\ tpc[t] = "waiting"
    /\ frame[t].op \in {"call_tool", "list_all_tools"}
    /\ EndToolRequest(t, WaitResult(frame[t].fut, frame[t].req,
                                    frame[t].reply # "none"))
    /\ UNCHANGED <<services, files, lock>>
    /\ UNCHANGED <<cvars, rvars>>

\* the configs of a service that has no client, in SpecWide's initial states
IdleConfigs == {NoConfig, ExampleConfig}

\* the registry of SpecWide: each of its two services with or without a client
\* recorded (see Init)
InitWide ==
    /\ clients \in [Names -> {NoClient} \cup {ReadyClient(k) : k \in ClientTransports}]
    /\ \A n \in Names \ WideNames : clients[n] = NoClient
    /\ services \in [Names -> IdleConfigs \cup
                       {[transport |-> k, enabled |-> TRUE,
                         retry_count |-> DefaultRetryCount] : k \in ClientTransports}]
    /\ \A n \in Names :
          IF clients[n] # NoClient
          THEN ServiceUsable(services[n]) /\ services[n].transport = clients[n].kind
          ELSE services[n] \in IdleConfigs /\ (n \notin WideNames => services[n] = NoConfig)
    /\ files = FilesOf(services)
    /\ config_dir = TRUE
    /\ result = NoResult
    /\ added = services
    /\ lock = [holder |-> "None", waiters |-> <<>>]
    /\ tpc = [t \in AllTasks |-> "idle"]
    /\ frame = [t \in AllTasks |-> NoFrame]
    /\ transport = [kind |-> "http", open |-> FALSE, closed |-> FALSE]
    /\ server_info = NoInfo
    /\ request_id = 0
    /\ pending_requests = {}
    /\ future = [p \in Callers |-> Unset]
    /\ cpc = [p \in Callers |-> "idle"]
    /\ creq = [p \in Callers |-> NoCall]
    /\ cout = [p \in Callers |-> NoOutcome]
    /\ interrupted = {}
    /\ issued = <<>>
    /\ wire = {}
    /\ inbox = {}

NextWide ==
    \/ \E t \in Tasks, n \in WideNames : DisconnectServiceCall(t, n)
    \/ \E t \in Tasks : DisconnectServiceEnter(t)
    \/ \E t \in Tasks : DisconnectServiceClosed(t)
    \/ \E t \in ToolTasks, n \in WideNames : CallToolCall(t, n)
    \/ \E t \in ToolTasks :
          \E order \in KeyOrders({n \in Names : clients[n] # NoClient}) :
              ListAllToolsCall(t, order)
    \/ \E t \in ToolTasks : ToolSent(t)
    \/ \E t \in ToolTasks, reply \in Replies : PeerAnswersTool(t, reply)
    \/ \E t \in ToolTasks : ToolWaited(t)
    \/ \E n \in WideNames : PeerCloseService(n)
    \/ \E t \in Tasks : TaskReturn(t)

SpecWide == InitWide /\ [][NextWide]_vars

\* ---- get_status (manager.py:240-262) ----

\* the dictionary get_status builds: one entry per key of self.services
\* (manager.py:246-260)
StatusOfServices ==
    {[name |-> n, status |-> GetStatus(n)] : n \in {m \in Names : services[m] # NoConfig}}

\* MCPManager.get_status, called from synchronous code
GetStatusCall ==
    /\ result' = [NoResult EXCEPT !.op = "get_status", !.status = StatusOfServices]
    /\ UNCHANGED <<config_dir, added>>
    /\ UNCHANGED mvars
    /\ UNCHANGED cvars

\* get_status among add_service, disconnect_service and the peers of the
\* recorded clients, on the registries of SpecWide
NextStatus ==
    \/ GetStatusCall
    \/ \E n \in WideNames, cfg \in InputConfigs : AddService(n, cfg, "ok")
    \/ \E t \in ToolTasks, n \in WideNames : DisconnectServiceCall(t, n)
    \/ \E t \in ToolTasks : DisconnectServiceEnter(t)
    \/ \E t \in ToolTasks : DisconnectServiceClosed(t)
    \/ \E n \in WideNames : PeerCloseService(n)
    \/ \E t \in ToolTasks : TaskReturn(t)

SpecStatus == InitWide /\ [][NextStatus]_vars

Next ==
    \/ \E t \in Tasks, n \in ScopeNames : ConnectServiceCall(t, n)
    \/ \E t \in Tasks : ConnectServiceEnter(t)
    \/ \E t \in Tasks : ConnectServiceConnected(t)
    \/ \E t \in Tasks : ConnectServiceSent(t)
    \/ \E t \in Tasks, reply \in Replies : PeerAnswersInitialize(t, reply)
    \/ \E t \in Tasks : ConnectServiceWaited(t)
    \/ \E t \in Tasks, n \in ScopeNames : DisconnectServiceCall(t, n)
    \/ \E t \in AllTasks : DisconnectServiceEnter(t)
    \/ \E t \in AllTasks : DisconnectServiceClosed(t)
    \/ \E t \in Tasks : DisconnectAllCall(t)
    \/ \E t \in Tasks : DisconnectAllEnter(t)
    \/ \E n \in ScopeNames, cfg \in Config : AddService(n, cfg, "ok")
    \/ \E n \in ScopeNames, loop \in BOOLEAN, b \in Background :
          RemoveService(n, loop, b, TRUE)
    \/ \E b \in Background : SpawnedStart(b)
    \/ \E n \in ScopeNames : PeerCloseService(n)
    \/ \E t \in AllTasks : TaskReturn(t)

Spec == Init /\ [][Next]_vars

---------------------------------------------------------------------------
\* Properties of MCPClient, checked under SpecClient.

\* C1 (as claimed): every send_request whose response has been delivered by
\* the peer completes with the response carrying its own id, whatever the
\* order of arrival.
C1_EachRequestGetsItsResponse ==
    \A p \in Callers :
        (cpc[p] = "done" /\ creq[p].op = "request" /\ cout[p].answered)
            => (cout[p].kind = "response" /\ cout[p].id = creq[p].id)

\* C2 (as claimed): every send_request that was waiting when disconnect()
\* finished completes with a connection error, never with a timeout error.
C2_DisconnectFailsWaiters ==
    \A p \in interrupted :
        cpc[p] = "done" => cout[p].kind = "failed"

\* C3: a send_request whose wait ends with no result on its future fails
\* with the timeout error naming its method, and at that moment its id is not
\* in the pending-request set.
C3_TimeoutNamesMethodAndUnregisters ==
    [][\A p \in Callers :
        (cpc[p] = "waiting" /\ cpc'[p] = "done" /\ future[p].state = "unset")
            => /\ cout'[p].kind = "timeout"
               /\ cout'[p].method = creq[p].method
               /\ creq[p].id \notin {e.id : e \in pending_requests'}]_vars

\* C3 witness: a tools/* request has timed out while another is outstanding
C3_Witness ==
    \E p, q \in Callers :
        /\ cpc[p] = "done" /\ creq[p].op = "request" /\ cout[p].kind = "timeout"
        /\ cpc[q] = "waiting" /\ creq[q].id \in PendingIds

\* C4: the ids allocated by one client are pairwise distinct and strictly
\* increasing in allocation order, across send_request, send_notification,
\* connect and disconnect.
C4_IdsDistinctAndIncreasing ==
    /\ \A i, j \in 1..Len(issued) :
           i < j => (issued[i] # issued[j] /\ Num(issued[i]) < Num(issued[j]))
    /\ \A i \in 1..Len(issued) : Num(issued[i]) <= request_id

\* C4 witness: ids were allocated before and after a disconnect(), by
\* connect() and by send_request, and the counter has passed from one digit
\* to two
C4_Witness ==
    /\ Len(issued) >= 3
    /\ Len(issued[1]) < Len(issued[Len(issued)])
    /\ \E p, q \in Callers :
           /\ creq[p].op = "disconnect" /\ cpc[p] = "done"
           /\ creq[q].op = "connect" /\ creq[q].id = issued[Len(issued)]

\* C13 (as claimed): call_tool on a connected client, whose tools/call request
\* the peer has answered before the wait ended, returns the result when the
\* response carries a result and raises the tool-invocation error when it
\* carries an error.
C13_CallToolReturnsPeersReply ==
    \A p \in Callers :
        \A r \in inbox :
            ( /\ cpc[p] = "done"
              /\ creq[p].op = "request" /\ creq[p].method = "tools/call"
              /\ r.id = creq[p].id
              /\ cout[p].answered )
            => CallToolResult(cout[p], future[p].reply).kind =
                  IF r.reply = "result" THEN "result" ELSE "tool_error"

---------------------------------------------------------------------------
\* Properties of MCPManager, checked under Spec.

\* task t takes the step in which connect_service, holding the lock, runs from
\* "if name in self.clients" to its first suspension or its return
ConnectServiceEnters(t) ==
    /\ tpc[t] = "lock"
    /\ frame[t].op = "connect_service"
    /\ tpc'[t] # "lock"

\* task t is between acquiring and releasing self._lock
InCritical(t) ==
    \/ tpc[t] \in {"connecting", "sending", "waiting", "closing", "inner"}
    \/ tpc[t] = "lock" /\ Holds(lock, t)

\* C5 (as claimed): connect_service on an enabled HTTP service whose endpoint
\* took the initialize request and answered it with a result returns true, and
\* get_status then reports the service connected.
C5_HttpConnectReturnsTrue ==
    \A t \in Tasks :
        ( /\ tpc[t] = "done"
          /\ frame[t].op = "connect_service"
          /\ frame[t].cfg.enabled
          /\ frame[t].cfg.transport = "http"
          /\ [id |-> Str(1), reply |-> "result"] \in frame[t].client.inbox )
        => /\ frame[t].ret = "True"
           /\ GetStatus(frame[t].name).connected

\* C6: at most one task is inside the lock-guarded path at any time; a
\* connect_service that finds a client recorded returns that client's
\* connectedness at once, attempts nothing and leaves the client map as it is;
\* and no step puts a client in the place of a recorded one.
C6_ConnectIsExclusive ==
    /\ [](Cardinality({t \in AllTasks : InCritical(t)}) <= 1)
    /\ [][ /\ \A t \in Tasks :
                (ConnectServiceEnters(t) /\ clients[frame[t].name] # NoClient)
                => /\ tpc'[t] = "done"
                   /\ clients' = clients
                   /\ frame'[t].attempts = 0
                   /\ frame'[t].ret =
                        BoolStr(ClientIsConnected(clients[frame[t].name]))
           /\ \A n \in Names :
                (clients[n] # NoClient /\ clients'[n] # NoClient)
                => clients'[n] \in {clients[n], [clients[n] EXCEPT !.closed = TRUE]}
         ]_vars

\* C6 witness: one task is waiting for the initialize response inside
\* connect_service(n) while the other has called connect_service(n) for the
\* same name and is queued on the lock
C6_Witness ==
    \E t, u \in Tasks :
        /\ t # u
        /\ frame[t].op = "connect_service" /\ frame[u].op = "connect_service"
        /\ frame[t].name = frame[u].name
        /\ tpc[t] = "waiting"
        /\ tpc[u] = "lock" /\ ~Holds(lock, u)

\* C7: connect_service returns True or False and raises nothing; whenever the
\* construction of the client, the transport connect or the handshake failed,
\* it returns False.
C7_ConnectNeverRaises ==
    \A t \in Tasks :
        (tpc[t] = "done" /\ frame[t].op = "connect_service")
        => /\ frame[t].ret \in {"True", "False"}
           /\ frame[t].err # "none" => frame[t].ret = "False"

\* C7 witness: one call has ended on the unsupported stdio transport, and
\* another on a handshake that timed out
C7_Witness ==
    \E t, u \in Tasks :
        /\ tpc[t] = "done" /\ frame[t].op = "connect_service"
        /\ frame[t].err = "unsupported" /\ frame[t].ret = "False"
        /\ tpc[u] = "done" /\ frame[u].op = "connect_service"
        /\ frame[u].err = "timeout" /\ frame[u].ret = "False"

C9_RetriesUntilExhausted ==
    \A t \in Tasks :
        ( /\ tpc[t] = "done"
          /\ frame[t].op = "connect_service"
          /\ frame[t].attempts >= 1
          /\ frame[t].ret = "False" )
        => frame[t].attempts = frame[t].cfg.retry_count

\* a step of disconnect_all in task t
DisconnectAllStep(t) ==
    \/ DisconnectAllEnter(t)
    \/ DisconnectServiceEnter(t)
    \/ DisconnectServiceClosed(t)

---------------------------------------------------------------------------
\* Properties of the config directory, checked under SpecRegistry (C15 under
\* Spec).  Under SpecRegistry every step is one synchronous call, and result
\* after the step is that call's.

\* C14: when remove_service(name) has returned True, get_service(name) is
\* absent and there is no file at name's path; remove_service on a name that is
\* not in the service map returns False and changes neither the service map,
\* the client map nor any file.
C14_RemoveDeletesRecord ==
    [][\A n \in Names :
        (result'.op = "remove_service" /\ result'.name = n)
        => /\ result'.ret = "True"
                => /\ services'[n] = NoConfig
                   /\ files'[ConfigFile(n)] = Absent
           /\ services[n] = NoConfig
                => /\ result'.ret = "False"
                   /\ ~result'.raised
                   /\ services' = services
                   /\ clients' = clients
                   /\ files' = files]_vars

\* C14 witness: remove_service has returned True for a service whose file
\* existed, and the service and the file are gone
C14_Witness ==
    /\ result.op = "remove_service" /\ result.ret = "True" /\ result.exists
    /\ services[result.name] = NoConfig
    /\ files[ConfigFile(result.name)] = Absent

C16_AddThenLoadRoundTrips ==
    /\ result.op = "add_service" => services[result.name] = result.cfg
    /\ (result.op = "load_services" /\ result.fresh /\ ~result.raised)
         => \A n \in Names : added[n] # NoConfig => services[n] = added[n]

\* C17 (as claimed): when the file write of add_service or the file deletion
\* of remove_service fails, the service map is left as it was before the call.
C17_MemoryAndDiskChangeTogether ==
    [][(result'.op \in {"add_service", "remove_service"} /\ result'.raised)
        => services' = services]_vars

\* C18: load_services() that returns from a directory that was absent, or held
\* no record, leaves the directory existing and holding exactly one record,
\* the example record, which reads back with enabled false and transport
\* stdio.
C18_EmptyDirectoryIsSeeded ==
    [][( /\ result'.op = "load_services" /\ ~result'.raised
         /\ (~config_dir \/ Glob(files) = {}) )
        => /\ config_dir'
           /\ Glob(files') = {ConfigFile(ExampleName)}
           /\ LET v == Validate(files'[ConfigFile(ExampleName)])
              IN  /\ v.ok
                  /\ v.name = ExampleName
                  /\ v.cfg.enabled = FALSE
                  /\ v.cfg.transport = "stdio"]_vars

\* C18 witness: load_services has seeded the directory, which now holds the
\* example record and nothing else
C18_Witness ==
    /\ result.op = "load_services" /\ result.seeded /\ ~result.raised
    /\ config_dir
    /\ Glob(files) = {ConfigFile(ExampleName)}
    /\ files[ConfigFile(ExampleName)] = Dump(ExampleName, ExampleConfig)

\* C19: load_services() over a directory that holds records puts in the service
\* map the config of every record that validates, whatever records fail and
\* wherever they fall in the order of enumeration.
C19_InvalidRecordsAreSkipped ==
    [][(result'.op = "load_services" /\ ~result'.seeded)
        => \A p \in Glob(files) :
              LET v == Validate(files[p])
              IN  v.ok => services'[v.name] = v.cfg]_vars

\* C19 witness: load_services has returned over a directory holding a record
\* that does not read or validate and a record that does, and the valid one is
\* in the service map
C19_Witness ==
    /\ result.op = "load_services" /\ ~result.seeded
    /\ \E p, q \in Glob(files) :
          /\ ~Validate(files[p]).ok
          /\ Validate(files[q]).ok
          /\ services[Validate(files[q]).name] = Validate(files[q]).cfg

---------------------------------------------------------------------------
\* Properties of the calls that go through recorded clients, checked under
\* SpecWide.

\* task t takes the step in which disconnect_service, holding the lock, pops
\* the client and runs to its suspension in client.disconnect() or its return
DisconnectServiceEnters(t) ==
    /\ tpc[t] = "lock"
    /\ frame[t].op = "disconnect_service"
    /\ tpc'[t] # "lock"

\* C11: disconnect_service(name) takes name's client out of the client map and
\* disconnects it (transport closed, server_info cleared, nothing pending) by
\* the time it returns; with no client recorded for name it returns at once,
\* raises nothing and leaves the client map as it is; in both cases the service
\* map and every other client are left as they are.
C11_DisconnectServiceRemovesClient ==
    /\ [](\A t \in Tasks :
            (tpc[t] = "done" /\ frame[t].op = "disconnect_service"
                /\ frame[t].client # NoClient)
            => /\ ~ClientIsConnected(frame[t].client)
               /\ ~frame[t].client.open
               /\ frame[t].client.server_info = NoInfo
               /\ frame[t].client.pending = {}
               /\ frame[t].ret = "None")
    /\ [][\A t \in Tasks :
            DisconnectServiceEnters(t)
            => /\ clients'[frame[t].name] = NoClient
               /\ \A m \in Names \ {frame[t].name} : clients'[m] = clients[m]
               /\ services' = services
               /\ IF clients[frame[t].name] = NoClient
                  THEN /\ clients' = clients
                       /\ tpc'[t] = "done"
                       /\ frame'[t].ret = "None"
                  ELSE /\ tpc'[t] = "closing"
                       /\ frame'[t].client = clients[frame[t].name]]_vars

\* C11 witness: disconnect_service has returned with its client disconnected
\* while the other service's client is still recorded and connected, and the
\* other task's disconnect_service of a name without a client has returned
C11_Witness ==
    \E t, u \in Tasks :
        /\ tpc[t] = "done" /\ frame[t].op = "disconnect_service"
        /\ frame[t].client # NoClient /\ ~frame[t].client.open
        /\ clients[frame[t].name] = NoClient
        /\ \E m \in Names : clients[m] # NoClient /\ ClientIsConnected(clients[m])
        /\ tpc[u] = "done" /\ frame[u].op = "disconnect_service"
        /\ frame[u].client = NoClient

\* C12: call_tool of the manager fails with the not-connected error, sending
\* nothing and allocating no id, when the service has no client recorded or its
\* client is not connected; otherwise it sends a tools/call request through
\* that client and gives its caller what the client's call_tool gave, result or
\* error, as it is.
C12_CallToolNeedsConnectedClient ==
    /\ [](\A t \in ToolTasks :
            (tpc[t] = "done" /\ frame[t].op = "call_tool")
            => IF frame[t].res.kind = "not_connected"
               THEN frame[t].out = NoOutcome /\ frame[t].req = NoCall
               ELSE /\ frame[t].res = frame[t].out
                    /\ frame[t].out.kind \in {"result", "tool_error", "timeout", "failed"}
                    /\ frame[t].req.method = "tools/call")
    /\ [][\A t \in ToolTasks :
            (tpc[t] = "idle" /\ frame'[t].op = "call_tool")
            => LET c == clients[frame'[t].name]
               IN  IF c = NoClient \/ ~ClientIsConnected(c)
                   THEN /\ tpc'[t] = "done"
                        /\ frame'[t].res.kind = "not_connected"
                        /\ clients' = clients
                   ELSE /\ tpc'[t] = "sending"
                        /\ frame'[t].req.method = "tools/call"
                        /\ clients'[frame'[t].name].request_id = c.request_id + 1
                        /\ frame'[t].req.id \in
                              {e.id : e \in clients'[frame'[t].name].pending}]_vars

\* C12 witness: a call_tool delegated to a connected client has ended with the
\* client's timeout error, given to the caller unchanged, and the client,
\* closed by its peer since, is one for which call_tool now fails not connected
C12_Witness ==
    \E t \in ToolTasks :
        /\ tpc[t] = "done" /\ frame[t].op = "call_tool"
        /\ frame[t].out.kind = "timeout" /\ frame[t].res = frame[t].out
        /\ clients[frame[t].name] # NoClient
        /\ ~ClientIsConnected(clients[frame[t].name])

---------------------------------------------------------------------------
\* Properties of the handshake and of the correlation of responses, checked
\* under SpecClient, SpecCancel and SpecHandshake (C22 under Spec).

\* C21: get_status changes nothing of the manager, its clients or the config
\* directory, and returns exactly one entry per configured service, with the
\* service's transport and enabled flag; the entry of a service without a
\* client says connected False and no server_info, and the entry of a service
\* with a client says what the client's is_connected says.
C21_GetStatusIsPureRead ==
    [][(result' # result /\ result'.op = "get_status")
        => /\ UNCHANGED <<services, files, clients, lock, tpc, frame>>
           /\ UNCHANGED <<config_dir, added>>
           /\ UNCHANGED cvars
           /\ \A n \in Names :
                LET entries == {r \in result'.status : r.name = n}
                IN  IF services[n] = NoConfig
                    THEN entries = {}
                    ELSE /\ Cardinality(entries) = 1
                         /\ \A r \in entries :
                              /\ r.status.enabled = services[n].enabled
                              /\ r.status.transport = services[n].transport
                              /\ clients[n] = NoClient
                                   => (~r.status.connected /\ r.status.server_info = NoInfo)
                              /\ clients[n] # NoClient
                                   => /\ r.status.connected = ClientIsConnected(clients[n])
                                      /\ r.status.server_info = clients[n].server_info
       ]_vars

\* C21 witness: get_status has returned an entry for an enabled service that
\* has no client, saying not connected, and one for a service with a connected
\* client
C21_Witness ==
    /\ result.op = "get_status"
    /\ \E r, q \in result.status :
          /\ clients[r.name] = NoClient /\ services[r.name] # NoConfig
          /\ r.status.enabled /\ ~r.status.connected /\ r.status.server_info = NoInfo
          /\ clients[q.name] # NoClient
          /\ q.status.connected /\ q.status.server_info = ServerInfo

\* C22 (as claimed): connect_service on an enabled stdio service gets a client
\* with a working transport: the construction of the client does not fail.
C22_StdioTransportIsSelected ==
    \A t \in Tasks :
        ( /\ tpc[t] = "done" /\ frame[t].op = "connect_service"
          /\ frame[t].cfg # NoConfig /\ frame[t].cfg.enabled
          /\ frame[t].cfg.transport = "stdio" )
        => frame[t].err # "unsupported"

\* C23: connect() allocates and sends the initialize request only with the
\* transport open; server_info becomes set only in the step in which a connect()
\* takes an initialize response that carries a result; and a connect() whose
\* wait ends without a response, or with an error response, fails and leaves
\* server_info as it was.
C23_ConnectFollowsHandshakeOrder ==
    [][ /\ \A p \in Callers :
             (creq'[p].op = "connect" /\ creq'[p].id # NoId /\ creq[p].id = NoId)
             => transport'.open
        /\ (server_info # ServerInfo /\ server_info' = ServerInfo)
             => \E p \in Callers :
                   /\ creq[p].op = "connect" /\ cpc[p] = "waiting"
                   /\ future[p].state = "done" /\ future[p].reply = "result"
        /\ \A p \in Callers :
             ( /\ cpc[p] = "waiting" /\ cpc'[p] = "done" /\ creq[p].op = "connect"
               /\ (future[p].state # "done" \/ future[p].reply = "error") )
             => /\ cout'[p].kind \in {"timeout", "failed"}
                /\ server_info' = server_info
      ]_vars

\* C23 witness: one connect() has ended Ready on a response with a result, and
\* another connect() has timed out in its handshake
C23_Witness ==
    \E p, q \in Callers :
        /\ cpc[p] = "done" /\ creq[p].op = "connect" /\ cout[p].kind = "ok"
        /\ server_info = ServerInfo
        /\ cpc[q] = "done" /\ creq[q].op = "connect" /\ cout[q].kind = "timeout"

\* C24 (as claimed): when connect() fails in the handshake, it leaves the
\* client not connected, with the transport closed, no server_info and no
\* pending request of its own.
C24_FailedHandshakeLeavesDisconnected ==
    [][\A p \in Callers :
        ( /\ cpc[p] = "waiting" /\ cpc'[p] = "done" /\ creq[p].op = "connect"
          /\ cout'[p].kind # "ok" )
        => /\ ~TransportIsConnected(transport')
           /\ ~transport'.open
           /\ server_info' = NoInfo
           /\ {e \in pending_requests' : e.fut = p} = {}]_vars

C26_ReceiveLoopResolvesRequests ==
    [][\A p \in Callers :
        ( /\ transport.kind = "websocket"
          /\ cpc[p] = "waiting" /\ cpc'[p] = "done"
          /\ creq[p].id \in InboxIds /\ creq[p].id \in PendingIds )
        => /\ cout'[p].kind \in {"response", "ok"}
           /\ cout'[p].id = creq[p].id]_vars

\* C27 (as claimed): on HTTP, a send_request whose round trip succeeded (the
\* POST was answered) completes with that reply in the step in which the send
\* returns, and does not go on to wait.
C27_HttpReplyResolvesRequest ==
    [][\A p \in Callers :
        ( /\ transport.kind = "http"
          /\ cpc[p] = "sending" /\ cpc'[p] # "sending"
          /\ creq[p].id \in {r.id : r \in inbox'} )
        => /\ cpc'[p] = "done"
           /\ cout'[p].kind \in {"response", "ok"}]_vars

\* C28: a response delivered with an id that is not pending resolves nothing
\* and leaves the pending set and the transport as they are; a request that has
\* just been issued has an id that no response delivered or in flight carries;
\* and a call that ends with a response ends with the response of its own id.
C28_UnmatchedResponseIsDiscarded ==
    /\ [](\A p \in Callers :
            /\ cpc[p] = "sending" => (creq[p].id \notin InboxIds /\ creq[p].id \notin wire)
            /\ (cpc[p] = "done" /\ cout[p].kind \in {"response", "ok"}
                    /\ creq[p].op \in {"request", "connect"})
                 => cout[p].id = creq[p].id)
    /\ [][\A r \in inbox' :
            (r \notin inbox /\ r.id \notin PendingIds)
            => /\ future' = future
               /\ pending_requests' = pending_requests
               /\ transport' = transport
               /\ \A q \in Callers : cpc'[q] = "done" => cpc[q] = "done"]_vars

\* C28 witness: the response for a request that has timed out has arrived
\* late, and a later request has been sent on the same connection and waits
C28_Witness ==
    \E p, q \in Callers :
        /\ cpc[p] = "done" /\ creq[p].op = "request" /\ cout[p].kind = "timeout"
        /\ ~cout[p].answered /\ creq[p].id \in InboxIds
        /\ cpc[q] = "waiting" /\ creq[q].op = "request"
        /\ Num(creq[q].id) > Num(creq[p].id)
        /\ creq[q].id \in wire
        /\ TransportIsConnected(transport)

\* C29 (as claimed): when a send_request call has completed, by any route, its
\* id is not in the pending-request set.
C29_PendingOnlyWhileOutstanding ==
    \A p \in Callers :
        (cpc[p] \in {"done", "cancelled"} /\ creq[p].op = "request")
        => creq[p].id \notin PendingIds

\* C30: a send_request whose send fails, on a transport that is not open or in
\* send_message, ends at once (it does not go on to wait, and nothing is
\* sent again) with the request-failed error naming the failure, and its id
\* is then not pending; the request has not reached the peer.
C30_SendFailureFailsAtOnce ==
    [][\A p \in Callers :
        creq'[p].op = "request"
        => /\ (cpc[p] = "sending" /\ cpc'[p] # "sending")
                => IF creq[p].id \in wire' \/ creq[p].id \in {r.id : r \in inbox'}
                   THEN cpc'[p] = "waiting"
                   ELSE /\ cpc'[p] = "done"
                        /\ cout'[p].kind = "failed"
                        /\ cout'[p].method = creq[p].method
                        /\ creq[p].id \notin {e.id : e \in pending_requests'}
           /\ (cpc[p] = "idle" /\ cpc'[p] # "idle" /\ ~transport.open)
                => /\ cpc'[p] = "done"
                   /\ cout'[p].kind = "failed"
                   /\ creq'[p].id \notin {e.id : e \in pending_requests'}
                   /\ creq'[p].id \notin wire'
                   /\ creq'[p].id \notin {r.id : r \in inbox'}]_vars

\* C30 witness: one send_request has failed in send_message on a socket its
\* peer had closed, with nothing of it pending or sent, while another request
\* is still pending
C30_Witness ==
    \E p, q \in Callers :
        /\ cpc[p] = "done" /\ creq[p].op = "request" /\ cout[p].kind = "failed"
        /\ transport.open /\ transport.closed
        /\ creq[p].id \notin PendingIds /\ creq[p].id \notin wire
        /\ cpc[q] = "waiting" /\ creq[q].id \in PendingIds

---------------------------------------------------------------------------
\* Properties of disconnect(), of the registry's maps and of seeding.

\* C31: in whatever state of the client disconnect() is called, and whatever
\* runs while it is suspended, it returns normally, and when it returns the
\* transport is closed, is_connected is False, server_info is None and no
\* request is pending; called on a client that is already in that state, it
\* changes none of these.
C31_DisconnectIsIdempotent ==
    [][\A p \in Callers :
        (cpc[p] # "done" /\ cpc'[p] = "done" /\ creq'[p].op = "disconnect")
        => /\ cout'[p].kind = "ok"
           /\ ~transport'.open
           /\ ~TransportIsConnected(transport')
           /\ server_info' = NoInfo
           /\ pending_requests' = {}
           /\ (~transport.open /\ server_info = NoInfo /\ pending_requests = {})
                => UNCHANGED <<transport, server_info, pending_requests>>]_vars

\* C31 witness: a connect() has ended Ready, and a disconnect() called after
\* it has returned with the client disconnected and its server_info cleared
C31_Witness ==
    \E p, q \in Callers :
        /\ cpc[q] = "done" /\ creq[q].op = "connect" /\ cout[q].kind = "ok"
        /\ cpc[p] = "done" /\ creq[p].op = "disconnect" /\ cout[p].kind = "ok"
        /\ ~transport.open /\ server_info = NoInfo /\ pending_requests = {}

C35_SeedingRegistersNothing ==
    [][(result'.op = "load_services" /\ result'.seeded /\ ~result'.raised)
        => /\ services' = services
           /\ services = NoServices => ListServices(services') = {}
           /\ services'[ExampleName] = services[ExampleName]
           /\ Glob(files') = {ConfigFile(ExampleName)}
           /\ Validate(files'[ConfigFile(ExampleName)]).ok]_vars

\* C35 witness: load_services on a manager with an empty service map has
\* seeded the directory, and list_services() is still empty
C35_Witness ==
    /\ result.op = "load_services" /\ result.seeded /\ result.fresh
    /\ ~result.raised
    /\ ListServices(services) = {}
    /\ Validate(files[ConfigFile(ExampleName)]).ok
    /\ Cardinality(Glob(files)) = 1

===========================================================================
